---------------------------- MODULE Spec2Model ----------------------------
(***************************************************************************)
(* Taste-Tuner: a model of the two recommendation programs of the          *)
(* repository, TasteExplorer (src/taste_explorer.py) and TasteTuner        *)
(* (src/taste_tuner.py).                                                   *)
(*                                                                         *)
(* One behaviour is one run of one entry point, chosen by `mode`:          *)
(*   "explorer"      TasteExplorer.create_discovery_playlist               *)
(*   "tuner"         TasteTuner.create_optimized_playlist                  *)
(*   "optimize"      a direct call of TasteTuner.optimize_playlist         *)
(*   "audio_pref"    TasteTuner.calculate_audio_preference                 *)
(*   "audio_match"   TasteTuner.calculate_audio_match                      *)
(*   "artist_match"  TasteTuner.calculate_artist_match                     *)
(*                                                                         *)
(* The remote music service is the environment: the content of a fetch     *)
(* comes from a small fixed catalogue, whether a fetch fails is chosen     *)
(* nondeterministically.  Scores are real numbers in the source; they are  *)
(* kept here as exact fractions [num, den] (floating-point rounding is     *)
(* not modelled).  The two playlist calls (user_playlist_create,            *)
(* playlist_add_items) are taken to succeed.                               *)
(***************************************************************************)
EXTENDS Integers, Sequences, FiniteSets, TLC

VARIABLES
    mode,                   \* which entry point this run executes
    pc,                     \* position inside the running method
    \* ---- TasteExplorer fields (taste_explorer.py:42-46)
    artist_connections,     \* defaultdict(set): artist -> related artists
    artist_genres,          \* defaultdict(set): artist -> genres
    genre_artists,          \* defaultdict(set): genre -> artists
    artist_tracks,          \* defaultdict(set): artist -> tracks
    track_features,         \* dict in insertion order: sequence of track records
    \* ---- locals of build_music_graph / create_discovery_playlist
    top_artists,            \* list of artist ids gathered from the windows
    loc,                    \* loop positions and the lists being iterated
    discovery_scores,       \* dict in insertion order: sequence of [id, score]
    \* ---- TasteTuner fields (taste_tuner.py:46-48)
    user_top_artists,       \* dict keyed by artist id (the key set)
    user_top_genres,        \* dict genre -> count
    user_audio_preferences, \* dict feature -> value (a fraction), or empty
    \* ---- locals of the TasteTuner methods
    candidate_tracks,       \* list of track records
    track_scores,           \* create_optimized_playlist's track_scores
    opt_scores,             \* optimize_playlist's track_scores
    features,               \* calculate_audio_preference's `features`
    \* ---- shared
    playlist_size,          \* the requested size K
    selected_tracks,        \* the list of ids the selection step produced
    playlist,               \* the remote playlist: created?, items
    args,                   \* arguments of a directly called pure method
    result,                 \* return value of the method
    raised                  \* exception that left the method, or "none"

explorerFields == <<artist_connections, artist_genres, genre_artists,
                    artist_tracks, track_features>>
explorerLocals == <<top_artists, loc, discovery_scores>>
tunerFields == <<user_top_artists, user_top_genres, user_audio_preferences>>
tunerLocals == <<candidate_tracks, track_scores, opt_scores, features>>
shared == <<playlist_size, selected_tracks, playlist, args, result, raised>>
vars == <<mode, pc, explorerFields, explorerLocals, tunerFields, tunerLocals, shared>>

--------------------------------------------------------------------------
(* Bounds of the model *)

\* the requested playlist size K ranges over 0..MaxK
MaxK == 4

--------------------------------------------------------------------------
(* Generic helpers *)

Max(a, b) == IF a >= b THEN a ELSE b
Min(a, b) == IF a <= b THEN a ELSE b
Abs(x) == IF x >= 0 THEN x ELSE -x
Range(s) == {s[i] : i \in DOMAIN s}

\* exact fractions: [num, den] with den > 0
Frac(n, d) == [num |-> n, den |-> d]
FracEq(a, b) == IF a.den = b.den THEN a.num = b.num ELSE a.num * b.den = b.num * a.den
FracLeq(a, b) == IF a.den = b.den THEN a.num <= b.num ELSE a.num * b.den <= b.num * a.den
FracLt(a, b) == IF a.den = b.den THEN a.num < b.num ELSE a.num * b.den < b.num * a.den

RECURSIVE SumSeq(_)
SumSeq(s) == IF s = <<>> THEN 0 ELSE s[1] + SumSeq(Tail(s))

\* the empty dict
EmptyMap == [x \in {} |-> {}]

\* the value a defaultdict(set) yields for d[k] (the empty set for a missing
\* key)
DDGet(d, k) == IF k \in DOMAIN d THEN d[k] ELSE {}

\* d[k].add(v)
DDAdd(d, k, v) ==
    [x \in DOMAIN d \cup {k} |-> IF x = k THEN DDGet(d, k) \cup {v} ELSE d[x]]

--------------------------------------------------------------------------
(* The remote catalogue the fetches read *)

ArtistIds == {"a1", "a2", "a3", "a4"}
Genres == {"g1", "g2", "g3"}

\* artist['genres'] of an artist record, in list order
GenresOfArtist(a) ==
    CASE a = "a1" -> <<"g1">>
      [] a = "a2" -> <<"g1", "g2">>
      [] a = "a3" -> <<>>
      [] OTHER    -> <<"g3">>

TrackIds == {"t1", "t2", "t3", "t4", "t5"}

\* a track record of the service: id, popularity, credited artists in order
\* (the first credit is the primary artist)
Track(t) ==
    CASE t = "t1" -> [id |-> "t1", popularity |-> 80, artists |-> <<"a1">>]
      [] t = "t2" -> [id |-> "t2", popularity |-> 20, artists |-> <<"a3", "a1">>]
      [] t = "t3" -> [id |-> "t3", popularity |-> 50, artists |-> <<"a2">>]
      [] t = "t4" -> [id |-> "t4", popularity |-> 50, artists |-> <<"a3">>]
      [] OTHER    -> [id |-> "t5", popularity |-> 100, artists |-> <<"a4", "a2">>]

\* artist_top_tracks(artist_id)['tracks'], in list order
ArtistTopTracks(a) ==
    CASE a = "a1" -> <<"t1", "t2">>
      [] a = "a2" -> <<"t3", "t5">>
      [] a = "a3" -> <<"t4", "t2">>
      [] OTHER    -> <<>>

\* artist_related_artists(artist_id)['artists'], in list order
RelatedArtists(a) ==
    CASE a = "a1" -> <<"a2">>
      [] a = "a2" -> <<"a1", "a4">>
      [] OTHER    -> <<>>

\* what one history window can return as the listener's top artists
WindowItems == {<<>>, <<"a1">>, <<"a2">>, <<"a3">>, <<"a1", "a2">>, <<"a3", "a1">>}

--------------------------------------------------------------------------
(* TasteExplorer *)

NoPlaylist == [created |-> FALSE, items |-> <<>>, filled |-> FALSE]

InitLoc == [w |-> 1, ai |-> 1, gi |-> 1, ti |-> 1, ri |-> 1, rgi |-> 1,
            tracks |-> <<>>, related |-> <<>>]

\* the number of history windows build_music_graph and
\* calculate_audio_preference iterate over
NumWindows == 3

\* mutant of TrackInfo: the record names the last credit of the track
TrackInfoLastCredit(t) ==
    [id |-> t, popularity |-> Track(t).popularity,
     artist_id |-> Track(t).artists[Len(Track(t).artists)]]

\* the record build_music_graph stores for a track (name and preview_url
\* are not read by any computation and are left out)
TrackInfo(t) ==
    [id |-> t, popularity |-> Track(t).popularity, artist_id |-> Track(t).artists[1]]

\* d[key] = value on a dict kept in insertion order: an existing key keeps
\* its place
DictSet(d, rec) ==
    IF \E i \in DOMAIN d : d[i].id = rec.id
    THEN [i \in DOMAIN d |-> IF d[i].id = rec.id THEN rec ELSE d[i]]
    ELSE Append(d, rec)

CurArtist == top_artists[loc.ai]

\* the loop `for artist in tqdm(top_artists)` moves to its next element
NextArtist(l) ==
    [l EXCEPT !.ai = @ + 1, !.gi = 1, !.ti = 1, !.ri = 1, !.rgi = 1,
              !.tracks = <<>>, !.related = <<>>]

ExplorerRest == <<tunerFields, tunerLocals, args, result>>

\* one iteration of the window loop: both fetches succeed and both lists
\* are extended, or one of them raises and nothing is added
FetchWindow ==
    /\ mode = "explorer" /\ pc = "windows"
    /\ loc.w <= NumWindows
    /\ \E ok \in BOOLEAN : \E items \in WindowItems :
          top_artists' = IF ok THEN top_artists \o items ELSE top_artists
    /\ loc' = [loc EXCEPT !.w = @ + 1]
    /\ pc' = IF loc.w = NumWindows THEN "saved" ELSE "windows"
    /\ UNCHANGED <<mode, explorerFields, discovery_scores, ExplorerRest,
                   playlist_size, selected_tracks, playlist, raised>>

\* the saved-tracks fetch only extends the local top_tracks, which nothing
\* reads afterwards (the artist loop rebinds the name)
FetchSaved ==
    /\ mode = "explorer" /\ pc = "saved"
    /\ \E ok \in BOOLEAN : pc' = "genres"
    /\ UNCHANGED <<mode, explorerFields, explorerLocals, ExplorerRest,
                   playlist_size, selected_tracks, playlist, raised>>

\* mutant of AddArtistGenre: the genre replaces the artist's set instead of
\* joining it
AddArtistGenreOverwrite(ag, a, g) ==
    [x \in DOMAIN ag \cup {a} |-> IF x = a THEN {g} ELSE ag[x]]

\* self.artist_genres[artist_id].add(genre)
AddArtistGenre(ag, a, g) == DDAdd(ag, a, g)

\* mutant of AddGenreArtist: the artist replaces the genre's set instead of
\* joining it
AddGenreArtistOverwrite(ga, g, a) ==
    [x \in DOMAIN ga \cup {g} |-> IF x = g THEN {a} ELSE ga[x]]

\* self.genre_artists[genre].add(artist_id)
AddGenreArtist(ga, g, a) == DDAdd(ga, g, a)

AddGenre ==
    /\ mode = "explorer" /\ pc = "genres"
    /\ loc.ai <= Len(top_artists)
    /\ loc.gi <= Len(GenresOfArtist(CurArtist))
    /\ artist_genres' =
          AddArtistGenre(artist_genres, CurArtist, GenresOfArtist(CurArtist)[loc.gi])
    /\ pc' = "genre_inverse"
    /\ UNCHANGED <<mode, artist_connections, genre_artists, artist_tracks,
                   track_features, explorerLocals, ExplorerRest,
                   playlist_size, selected_tracks, playlist, raised>>

AddGenreInverse ==
    /\ mode = "explorer" /\ pc = "genre_inverse"
    /\ genre_artists' =
          AddGenreArtist(genre_artists, GenresOfArtist(CurArtist)[loc.gi], CurArtist)
    /\ loc' = [loc EXCEPT !.gi = @ + 1]
    /\ pc' = "genres"
    /\ UNCHANGED <<mode, artist_connections, artist_genres, artist_tracks,
                   track_features, top_artists, discovery_scores, ExplorerRest,
                   playlist_size, selected_tracks, playlist, raised>>

\* artist_top_tracks: on an exception the handler's `continue` skips the
\* related-artist step of this artist as well
FetchTopTracks ==
    /\ mode = "explorer" /\ pc = "genres"
    /\ loc.ai <= Len(top_artists)
    /\ loc.gi > Len(GenresOfArtist(CurArtist))
    /\ \E ok \in BOOLEAN :
          IF ok
          THEN /\ loc' = [loc EXCEPT !.tracks = ArtistTopTracks(CurArtist), !.ti = 1]
               /\ pc' = "tracks"
          ELSE /\ loc' = NextArtist(loc)
               /\ pc' = "genres"
    /\ UNCHANGED <<mode, explorerFields, top_artists, discovery_scores,
                   ExplorerRest, playlist_size, selected_tracks, playlist, raised>>

AddTrack ==
    /\ mode = "explorer" /\ pc = "tracks"
    /\ loc.ti <= Len(loc.tracks)
    /\ artist_tracks' = DDAdd(artist_tracks, CurArtist, loc.tracks[loc.ti])
    /\ pc' = "track_info"
    /\ UNCHANGED <<mode, artist_connections, artist_genres, genre_artists,
                   track_features, explorerLocals, ExplorerRest,
                   playlist_size, selected_tracks, playlist, raised>>

StoreTrackInfo ==
    /\ mode = "explorer" /\ pc = "track_info"
    /\ track_features' = DictSet(track_features, TrackInfo(loc.tracks[loc.ti]))
    /\ loc' = [loc EXCEPT !.ti = @ + 1]
    /\ pc' = "tracks"
    /\ UNCHANGED <<mode, artist_connections, artist_genres, genre_artists,
                   artist_tracks, top_artists, discovery_scores, ExplorerRest,
                   playlist_size, selected_tracks, playlist, raised>>

FetchRelated ==
    /\ mode = "explorer" /\ pc = "tracks"
    /\ loc.ti > Len(loc.tracks)
    /\ \E ok \in BOOLEAN :
          IF ok
          THEN /\ loc' = [loc EXCEPT !.related = RelatedArtists(CurArtist), !.ri = 1]
               /\ pc' = "related"
          ELSE /\ loc' = NextArtist(loc)
               /\ pc' = "genres"
    /\ UNCHANGED <<mode, explorerFields, top_artists, discovery_scores,
                   ExplorerRest, playlist_size, selected_tracks, playlist, raised>>

AddConnection ==
    /\ mode = "explorer" /\ pc = "related"
    /\ loc.ri <= Len(loc.related)
    /\ artist_connections' = DDAdd(artist_connections, CurArtist, loc.related[loc.ri])
    /\ loc' = [loc EXCEPT !.rgi = 1]
    /\ pc' = "related_genres"
    /\ UNCHANGED <<mode, artist_genres, genre_artists, artist_tracks,
                   track_features, top_artists, discovery_scores, ExplorerRest,
                   playlist_size, selected_tracks, playlist, raised>>

RelatedDone ==
    /\ mode = "explorer" /\ pc = "related"
    /\ loc.ri > Len(loc.related)
    /\ loc' = NextArtist(loc)
    /\ pc' = "genres"
    /\ UNCHANGED <<mode, explorerFields, top_artists, discovery_scores,
                   ExplorerRest, playlist_size, selected_tracks, playlist, raised>>

CurRelated == loc.related[loc.ri]

AddRelatedGenre ==
    /\ mode = "explorer" /\ pc = "related_genres"
    /\ loc.rgi <= Len(GenresOfArtist(CurRelated))
    /\ artist_genres' =
          AddArtistGenre(artist_genres, CurRelated, GenresOfArtist(CurRelated)[loc.rgi])
    /\ pc' = "related_genre_inverse"
    /\ UNCHANGED <<mode, artist_connections, genre_artists, artist_tracks,
                   track_features, explorerLocals, ExplorerRest,
                   playlist_size, selected_tracks, playlist, raised>>

AddRelatedGenreInverse ==
    /\ mode = "explorer" /\ pc = "related_genre_inverse"
    /\ genre_artists' =
          AddGenreArtist(genre_artists, GenresOfArtist(CurRelated)[loc.rgi], CurRelated)
    /\ loc' = [loc EXCEPT !.rgi = @ + 1]
    /\ pc' = "related_genres"
    /\ UNCHANGED <<mode, artist_connections, artist_genres, artist_tracks,
                   track_features, top_artists, discovery_scores, ExplorerRest,
                   playlist_size, selected_tracks, playlist, raised>>

RelatedGenresDone ==
    /\ mode = "explorer" /\ pc = "related_genres"
    /\ loc.rgi > Len(GenresOfArtist(CurRelated))
    /\ loc' = [loc EXCEPT !.ri = @ + 1]
    /\ pc' = "related"
    /\ UNCHANGED <<mode, explorerFields, top_artists, discovery_scores,
                   ExplorerRest, playlist_size, selected_tracks, playlist, raised>>

\* build_music_graph returns: its locals are gone
BuildDone ==
    /\ mode = "explorer" /\ pc = "genres"
    /\ loc.ai > Len(top_artists)
    /\ top_artists' = <<>>
    /\ loc' = InitLoc
    /\ pc' = "scores"
    /\ UNCHANGED <<mode, explorerFields, discovery_scores, ExplorerRest,
                   playlist_size, selected_tracks, playlist, raised>>

\* weights of the discovery score, in tenths (0.4, 0.3, 0.3)
DiscGenreWeight == 4
DiscConnectionWeight == 3
DiscPopularityWeight == 3
\* "Normalize by max connections"
MaxConnections == 20
\* popularity is a percentage
PopularityScale == 100

\* mutant of DiscoveryScore: the popularity term is not inverted
DiscoveryScoreRawPopularity(overlap, gu, connections, popularity) ==
    Frac(  DiscGenreWeight * overlap * MaxConnections * PopularityScale
         + DiscConnectionWeight * connections * gu * PopularityScale
         + DiscPopularityWeight * popularity * gu * MaxConnections,
         10 * gu * MaxConnections * PopularityScale)

\* 0.4 * genre_score + 0.3 * connection_score + 0.3 * popularity_score with
\*   genre_score = overlap / gu, gu = max(len(user_genres), 1)
\*   connection_score = connections / 20.0
\*   popularity_score = 1.0 - popularity / 100.0
\* as one fraction over the denominator 10 * gu * 20 * 100
DiscoveryScore(overlap, gu, connections, popularity) ==
    Frac(  DiscGenreWeight * overlap * MaxConnections * PopularityScale
         + DiscConnectionWeight * connections * gu * PopularityScale
         + DiscPopularityWeight * (PopularityScale - popularity) * gu * MaxConnections,
         10 * gu * MaxConnections * PopularityScale)

\* the set user_genres that calculate_discovery_scores collects
UserGenres(ag) == UNION {ag[a] : a \in DOMAIN ag}

\* the reads self.artist_genres[artist_id] and
\* self.artist_connections[artist_id] of the scoring loop: a defaultdict
\* inserts every key it is read with
ScoringReads(d, tf) ==
    [x \in DOMAIN d \cup {tf[i].artist_id : i \in DOMAIN tf} |-> DDGet(d, x)]

\* discovery_scores, in the insertion order of track_features
ScoreTracks(tf, ag, ac) ==
    LET ug == UserGenres(ag) IN
    [i \in DOMAIN tf |->
        [id |-> tf[i].id,
         score |-> DiscoveryScore(Cardinality(DDGet(ag, tf[i].artist_id) \cap ug),
                                  Max(Cardinality(ug), 1),
                                  Cardinality(DDGet(ac, tf[i].artist_id)),
                                  tf[i].popularity)]]

CalculateDiscoveryScores ==
    /\ mode = "explorer" /\ pc = "scores"
    /\ discovery_scores' = ScoreTracks(track_features, artist_genres, artist_connections)
    /\ artist_genres' = ScoringReads(artist_genres, track_features)
    /\ artist_connections' = ScoringReads(artist_connections, track_features)
    /\ pc' = "select"
    /\ UNCHANGED <<mode, genre_artists, artist_tracks, track_features,
                   top_artists, loc, ExplorerRest,
                   playlist_size, selected_tracks, playlist, raised>>

\* sorted(..., key=score, reverse=True): a stable sort, entries of equal
\* score keep their order
RECURSIVE InsertByScore(_, _)
InsertByScore(s, x) ==
    IF s = <<>> THEN <<x>>
    ELSE IF FracLt(s[1].score, x.score) THEN <<x>> \o s
    ELSE <<s[1]>> \o InsertByScore(Tail(s), x)

RECURSIVE SortByScore(_)
SortByScore(s) ==
    IF s = <<>> THEN <<>>
    ELSE InsertByScore(SortByScore(SubSeq(s, 1, Len(s) - 1)), s[Len(s)])

\* the slice s[:k] for k >= 0
Slice(s, k) == SubSeq(s, 1, Min(k, Len(s)))

\* sorted_tracks[:playlist_size], as the list of ids
SelectTopTracks(scores, k) ==
    LET top == Slice(SortByScore(scores), k) IN [i \in DOMAIN top |-> top[i].id]

SelectDiscoveries ==
    /\ mode = "explorer" /\ pc = "select"
    /\ \E k \in 0..MaxK :
          /\ playlist_size' = k
          /\ selected_tracks' = SelectTopTracks(discovery_scores, k)
    /\ pc' = "create"
    /\ UNCHANGED <<mode, explorerFields, explorerLocals, ExplorerRest,
                   playlist, raised>>

\* user_playlist_create
CreateDiscoveryPlaylist ==
    /\ mode = "explorer" /\ pc = "create"
    /\ playlist' = [playlist EXCEPT !.created = TRUE]
    /\ pc' = "add_items"
    /\ UNCHANGED <<mode, explorerFields, explorerLocals, ExplorerRest,
                   playlist_size, selected_tracks, raised>>

\* playlist_add_items(playlist['id'], track_ids)
AddDiscoveryItems ==
    /\ mode = "explorer" /\ pc = "add_items"
    /\ playlist' = [playlist EXCEPT !.items = selected_tracks, !.filled = TRUE]
    /\ result' = "playlist_id"
    /\ pc' = "done"
    /\ UNCHANGED <<mode, explorerFields, explorerLocals, tunerFields, tunerLocals,
                   args, playlist_size, selected_tracks, raised>>

ExplorerNext ==
    \/ FetchWindow \/ FetchSaved
    \/ AddGenre \/ AddGenreInverse
    \/ FetchTopTracks \/ AddTrack \/ StoreTrackInfo
    \/ FetchRelated \/ AddConnection \/ RelatedDone
    \/ AddRelatedGenre \/ AddRelatedGenreInverse \/ RelatedGenresDone
    \/ BuildDone
    \/ CalculateDiscoveryScores \/ SelectDiscoveries
    \/ CreateDiscoveryPlaylist \/ AddDiscoveryItems

--------------------------------------------------------------------------
(* TasteTuner: the profile *)

\* the number of candidates get_diverse_tracks gathers (100 in the source)
PoolSize == 3

\* what a top-artists or followed-artists fetch can return
ArtistLists ==
    {<<>>, <<"a1">>, <<"a2">>, <<"a3">>, <<"a1", "a2">>, <<"a1", "a3">>,
     <<"a2", "a3">>, <<"a1", "a2", "a3">>}

\* user_top_genres after the loop over artist_items: one count per
\* occurrence of a genre
GenreCounts(items) ==
    LET has(i, g) == \E j \in DOMAIN GenresOfArtist(items[i]) :
                        GenresOfArtist(items[i])[j] = g
        gs == {g \in Genres : \E i \in DOMAIN items : has(i, g)}
    IN [g \in gs |-> Cardinality({i \in DOMAIN items : has(i, g)})]

\* fetch_user_data: the outcome for given answers of the service.  A fetch
\* that raises makes the method raise (`except ...: raise`).
FetchUserDataRaises(top_ok, top_items, followed_ok) ==
    \/ ~top_ok
    \/ top_items = <<>> /\ ~followed_ok

ArtistItems(top_items, followed_items) ==
    IF top_items = <<>> THEN followed_items ELSE top_items

TunerRest == <<explorerFields, explorerLocals, args>>

--------------------------------------------------------------------------
(* TasteTuner: the sub-scores *)

\* for artist in track['artists']: if artist['id'] in user_top_artists:
\* return 1.0; return 0.0 after the loop
RECURSIVE ArtistLoop(_, _)
ArtistLoop(credits, known) ==
    IF credits = <<>> THEN 0
    ELSE IF credits[1] \in known THEN 1
    ELSE ArtistLoop(Tail(credits), known)

\* mutant of CalculateArtistMatch: only the first credit is looked at
CalculateArtistMatchPrimary(track, known) ==
    IF track.artists[1] \in known THEN 1 ELSE 0

CalculateArtistMatch(track, known) == ArtistLoop(track.artists, known)

\* calculate_genre_match, as the pair overlap / len(user_genres); 0.0 when
\* the artist fetch raises or either set is empty
GenreOverlap(track, user_genres, fetch_ok) ==
    LET artist_gs == Range(GenresOfArtist(track.artists[1])) IN
    IF ~fetch_ok \/ user_genres = {} \/ artist_gs = {} THEN 0
    ELSE Cardinality(artist_gs \cap user_genres)

\* weights, in hundredths
WeightArtistMatch == 25
WeightGenreMatch == 25
WeightPopularity == 20
WeightDiversity == 50

\* every score of one call is kept over this denominator
ScoreDen(gu) == 2 * 100 * PopularityScale * gu

\* optimize_playlist's total_score:
\*   0.25 * artist_score + 0.25 * genre_score + 0.2 * popularity / 100
OptimizerScore(track, known, user_genres, fetch_ok) ==
    LET gu == Max(Cardinality(user_genres), 1) IN
    Frac(  WeightArtistMatch * CalculateArtistMatch(track, known) * 2 * PopularityScale * gu
         + WeightGenreMatch * GenreOverlap(track, user_genres, fetch_ok) * 2 * PopularityScale
         + WeightPopularity * track.popularity * 2 * gu,
         ScoreDen(gu))

\* create_optimized_playlist's total_score: the same plus
\*   0.5 * diversity_score, diversity_score = 1 - (artist * 0.5 + popularity/100 * 0.5)
FlowScore(track, known, user_genres, fetch_ok) ==
    LET gu == Max(Cardinality(user_genres), 1)
        a == CalculateArtistMatch(track, known)
    IN Frac(  OptimizerScore(track, known, user_genres, fetch_ok).num
            + WeightDiversity * (2 * PopularityScale - PopularityScale * a - track.popularity) * gu,
            ScoreDen(gu))

--------------------------------------------------------------------------
(* TasteTuner: the selection *)

RECURSIVE SumNum(_, _)
SumNum(scores, S) ==
    IF S = {} THEN 0
    ELSE LET i == CHOOSE j \in S : TRUE IN scores[i].num + SumNum(scores, S \ {i})

\* mutant of Solve: the objective is minimized
SolveMinimizing(scores, k) ==
    LET I == 1..Len(scores) IN
    IF k \in 0..Len(scores)
    THEN {S \in SUBSET I :
            /\ Cardinality(S) = k
            /\ \A T \in SUBSET I : Cardinality(T) = k => SumNum(scores, S) <= SumNum(scores, T)}
    ELSE SUBSET I

\* prob.solve() for: maximize sum(x[i] * score[i]) subject to sum(x) == k,
\* x[i] in {0, 1}.  The result is the set of indices with x[i] = 1: any
\* optimal assignment when one exists; when the constraint is infeasible
\* the solver leaves the variables at values the code does not inspect
\* (the status is never read), so any assignment may come back.
Solve(scores, k) ==
    LET I == 1..Len(scores) IN
    IF k \in 0..Len(scores)
    THEN {S \in SUBSET I :
            /\ Cardinality(S) = k
            /\ \A T \in SUBSET I : Cardinality(T) = k => SumNum(scores, T) <= SumNum(scores, S)}
    ELSE SUBSET I

\* the ids of the candidates with x[i] = 1, in candidate order
RECURSIVE SelectedIds(_, _, _)
SelectedIds(cands, S, i) ==
    IF i > Len(cands) THEN <<>>
    ELSE (IF i \in S THEN <<cands[i].id>> ELSE <<>>) \o SelectedIds(cands, S, i + 1)

\* the scores optimize_playlist computes; `failing` are the candidates
\* whose artist fetch raises
OptimizerScores(cands, known, user_genres, failing) ==
    [i \in DOMAIN cands |-> OptimizerScore(cands[i], known, user_genres, i \notin failing)]

\* optimize_playlist(candidate_tracks, playlist_size): the lists it can return
OptimizePlaylist(cands, k, scores) ==
    IF cands = <<>> THEN {<<>>}
    ELSE {SelectedIds(cands, S, 1) : S \in Solve(scores, k)}

\* the catalogue in the order a search returns it
TrackOrder == <<"t1", "t2", "t3", "t4", "t5">>

RECURSIVE SubList(_, _)
SubList(S, i) ==
    IF i > Len(TrackOrder) THEN <<>>
    ELSE (IF i \in S THEN <<Track(TrackOrder[i])>> ELSE <<>>) \o SubList(S, i + 1)

\* lists of n distinct tracks
Pools(n) == {SubList(S, 1) : S \in {T \in SUBSET DOMAIN TrackOrder : Cardinality(T) = n}}

--------------------------------------------------------------------------
(* TasteTuner.create_optimized_playlist *)

\* `if not self.user_top_artists: self.fetch_user_data()`
TunerFetchUserData ==
    /\ mode = "tuner" /\ pc = "start"
    /\ \E top_ok, followed_ok \in BOOLEAN : \E top_items, followed_items \in ArtistLists :
          IF FetchUserDataRaises(top_ok, top_items, followed_ok)
          THEN /\ raised' = "Exception"
               /\ pc' = "raised"
               /\ UNCHANGED <<user_top_artists, user_top_genres>>
          ELSE /\ user_top_artists' = Range(ArtistItems(top_items, followed_items))
               /\ user_top_genres' = GenreCounts(ArtistItems(top_items, followed_items))
               /\ pc' = "candidates"
               /\ UNCHANGED raised
    /\ UNCHANGED <<mode, user_audio_preferences, tunerLocals, TunerRest,
                   playlist_size, selected_tracks, playlist, result>>

\* candidate_tracks = self.get_diverse_tracks(): exactly PoolSize distinct tracks
GetDiverseTracks ==
    /\ mode = "tuner" /\ pc = "candidates"
    /\ \E pool \in Pools(PoolSize) : candidate_tracks' = pool
    /\ pc' = "score"
    /\ UNCHANGED <<mode, tunerFields, track_scores, opt_scores, features, TunerRest,
                   playlist_size, selected_tracks, playlist, result, raised>>

\* the loop that fills track_scores (lines 350-367)
ScoreCandidates ==
    /\ mode = "tuner" /\ pc = "score"
    /\ \E failing \in SUBSET DOMAIN candidate_tracks :
          track_scores' =
             [i \in DOMAIN candidate_tracks |->
                FlowScore(candidate_tracks[i], user_top_artists,
                          DOMAIN user_top_genres, i \notin failing)]
    /\ pc' = "optimize"
    /\ UNCHANGED <<mode, tunerFields, candidate_tracks, opt_scores, features, TunerRest,
                   playlist_size, selected_tracks, playlist, result, raised>>

\* selected_tracks = self.optimize_playlist(candidate_tracks, playlist_size)
\* and `if not selected_tracks: raise`
TunerOptimize ==
    /\ mode = "tuner" /\ pc = "optimize"
    /\ \E k \in 0..MaxK : \E failing \in SUBSET DOMAIN candidate_tracks :
         LET scores == OptimizerScores(candidate_tracks, user_top_artists,
                                       DOMAIN user_top_genres, failing)
         IN \E sel \in OptimizePlaylist(candidate_tracks, k, scores) :
              /\ playlist_size' = k
              /\ opt_scores' = scores
              /\ selected_tracks' = sel
              /\ IF sel = <<>>
                 THEN raised' = "Exception" /\ pc' = "raised"
                 ELSE raised' = raised /\ pc' = "create"
    /\ UNCHANGED <<mode, tunerFields, candidate_tracks, track_scores, features,
                   TunerRest, playlist, result>>

\* user_playlist_create
TunerCreatePlaylist ==
    /\ mode = "tuner" /\ pc = "create"
    /\ playlist' = [playlist EXCEPT !.created = TRUE]
    /\ pc' = "add_items"
    /\ UNCHANGED <<mode, tunerFields, tunerLocals, TunerRest,
                   playlist_size, selected_tracks, result, raised>>

\* playlist_add_items(playlist['id'], selected_tracks)
TunerAddItems ==
    /\ mode = "tuner" /\ pc = "add_items"
    /\ playlist' = [playlist EXCEPT !.items = selected_tracks, !.filled = TRUE]
    /\ result' = "playlist_id"
    /\ pc' = "done"
    /\ UNCHANGED <<mode, tunerFields, tunerLocals, TunerRest,
                   playlist_size, selected_tracks, raised>>

\* a direct call optimize_playlist(candidate_tracks, playlist_size)
DirectOptimize ==
    /\ mode = "optimize" /\ pc = "optimize"
    /\ \E k \in 0..MaxK : \E failing \in SUBSET DOMAIN candidate_tracks :
         LET scores == OptimizerScores(candidate_tracks, user_top_artists,
                                       DOMAIN user_top_genres, failing)
         IN \E sel \in OptimizePlaylist(candidate_tracks, k, scores) :
              /\ playlist_size' = k
              /\ opt_scores' = IF candidate_tracks = <<>> THEN <<>> ELSE scores
              /\ selected_tracks' = sel
              /\ result' = sel
    /\ pc' = "done"
    /\ UNCHANGED <<mode, tunerFields, candidate_tracks, track_scores, features,
                   TunerRest, playlist, raised>>

\* a direct call calculate_artist_match(track)
DirectArtistMatch ==
    /\ mode = "artist_match" /\ pc = "call"
    /\ result' = CalculateArtistMatch(args, user_top_artists)
    /\ pc' = "done"
    /\ UNCHANGED <<mode, tunerFields, tunerLocals, TunerRest,
                   playlist_size, selected_tracks, playlist, raised>>

TunerNext ==
    \/ TunerFetchUserData \/ GetDiverseTracks \/ ScoreCandidates
    \/ TunerOptimize \/ TunerCreatePlaylist \/ TunerAddItems
    \/ DirectOptimize \/ DirectArtistMatch

--------------------------------------------------------------------------
(* TasteTuner: audio features.  A feature value is an integer number of   *)
(* tenths (0.5 is 5, a tempo of 120.0 is 1200); a preference, being a     *)
(* mean, is a fraction of tenths.                                         *)

\* tenths per unit
FeatUnit == 10

\* at most this many seed tracks come back from one top-tracks or
\* saved-tracks fetch
MaxSeeds == 2

AudioFeatures ==
    {"danceability", "energy", "valence", "instrumentalness", "acousticness", "tempo"}

\* the default values of calculate_audio_preference
NeutralVector ==
    [danceability |-> 5, energy |-> 5, valence |-> 5,
     instrumentalness |-> 1, acousticness |-> 3, tempo |-> 1200]

\* the feature records the service has for seed tracks
SeedFeatures ==
    {[danceability |-> 8, energy |-> 6, valence |-> 4,
      instrumentalness |-> 0, acousticness |-> 2, tempo |-> 1000],
     [danceability |-> 2, energy |-> 9, valence |-> 7,
      instrumentalness |-> 5, acousticness |-> 1, tempo |-> 1400]}

\* what audio_features(track_id) yields for one track: a feature record, or
\* nothing (the call raises, or returns None)
FeatureAnswers ==
    {[ok |-> TRUE, vec |-> v] : v \in SeedFeatures}
       \cup {[ok |-> FALSE, vec |-> NeutralVector]}

\* the per-track answers for the tracks of one fetched list
TrackLists == UNION {[1..n -> FeatureAnswers] : n \in 0..MaxSeeds}

\* get_audio_features(track_ids): the records of the tracks that have one
RECURSIVE GetAudioFeatures(_)
GetAudioFeatures(answers) ==
    IF answers = <<>> THEN <<>>
    ELSE (IF answers[1].ok THEN <<answers[1].vec>> ELSE <<>>)
            \o GetAudioFeatures(Tail(answers))

Unbound == [bound |-> FALSE, list |-> <<>>]
Bound(l) == [bound |-> TRUE, list |-> l]

RECURSIVE SumField(_, _)
SumField(fs, f) == IF fs = <<>> THEN 0 ELSE fs[1][f] + SumField(Tail(fs), f)

\* np.mean over the feature records, per feature
MeanPreferences(fs) == [f \in AudioFeatures |-> Frac(SumField(fs, f), Len(fs))]

DefaultPreferences == [f \in AudioFeatures |-> Frac(NeutralVector[f], 1)]

AudioRest == <<explorerFields, explorerLocals, user_top_artists, user_top_genres,
               candidate_tracks, track_scores, opt_scores,
               playlist_size, selected_tracks, playlist, args>>

\* one iteration of `for time_range in [...]`: the fetch raises (continue),
\* returns no items, or returns items whose features are fetched; the loop
\* breaks when `features` is not empty
PreferenceWindow ==
    /\ mode = "audio_pref" /\ pc = "pref_windows"
    /\ loc.w <= NumWindows
    /\ \E ok \in BOOLEAN : \E answers \in TrackLists :
          LET fs == GetAudioFeatures(answers)
              found == ok /\ answers # <<>> /\ fs # <<>>
          IN /\ features' = IF ok /\ answers # <<>> THEN Bound(fs) ELSE features
             /\ pc' = IF found \/ loc.w = NumWindows THEN "pref_check" ELSE "pref_windows"
    /\ loc' = [loc EXCEPT !.w = @ + 1]
    /\ UNCHANGED <<mode, explorerFields, top_artists, discovery_scores, tunerFields,
                   candidate_tracks, track_scores, opt_scores,
                   playlist_size, selected_tracks, playlist, args, result, raised>>

\* `if not features:` after the loop reads a local that no iteration may
\* have bound: Python raises UnboundLocalError
PreferenceUnbound ==
    /\ mode = "audio_pref" /\ pc = "pref_check"
    /\ ~features.bound
    /\ raised' = "UnboundLocalError"
    /\ pc' = "raised"
    /\ UNCHANGED <<mode, tunerFields, features, loc, AudioRest, result>>

\* `if not features:` with an empty list: the saved tracks are tried; a
\* fetch that raises is reported and `features` stays empty
PreferenceSaved ==
    /\ mode = "audio_pref" /\ pc = "pref_check"
    /\ features.bound
    /\ IF features.list = <<>>
       THEN \E ok \in BOOLEAN : \E answers \in TrackLists :
               features' = IF ok THEN Bound(GetAudioFeatures(answers)) ELSE features
       ELSE UNCHANGED features
    /\ pc' = "pref_result"
    /\ UNCHANGED <<mode, tunerFields, loc, AudioRest, result, raised>>

\* the default values when there are still no features, the means otherwise
PreferenceResult ==
    /\ mode = "audio_pref" /\ pc = "pref_result"
    /\ user_audio_preferences' =
          IF features.list = <<>> THEN DefaultPreferences
          ELSE MeanPreferences(features.list)
    /\ pc' = "done"
    /\ UNCHANGED <<mode, user_top_artists, user_top_genres, features, loc,
                   AudioRest, result, raised>>

\* the features calculate_audio_match weighs, in the order of its dict
WeightedFeatures ==
    <<"danceability", "energy", "valence", "instrumentalness", "acousticness">>

\* their weights, in tenths
FeatureWeight(f) ==
    CASE f = "danceability" -> 10
      [] f = "energy" -> 10
      [] f = "valence" -> 8
      [] f = "instrumentalness" -> 5
      [] f = "acousticness" -> 7

RECURSIVE ProdDen(_, _)
ProdDen(up, fs) ==
    IF fs = {} THEN 1
    ELSE LET f == CHOOSE g \in fs : TRUE IN up[f].den * ProdDen(up, fs \ {f})

RECURSIVE SumDistances(_, _, _, _)
SumDistances(tf, up, fs, l) ==
    IF fs = {} THEN 0
    ELSE LET f == CHOOSE g \in fs : TRUE
         IN Abs(tf[f] * up[f].den - up[f].num) * FeatureWeight(f) * (l \div up[f].den)
               + SumDistances(tf, up, fs \ {f}, l)

\* mutant of CalculateAudioMatch: 1.0 - mean distance, without the min
CalculateAudioMatchUnfloored(tf, up) ==
    LET present == {f \in Range(WeightedFeatures) : f \in DOMAIN tf /\ f \in DOMAIN up}
        l == ProdDen(up, present)
        s == SumDistances(tf, up, present, l)
        d == Cardinality(present) * 10 * FeatUnit * l
    IN IF DOMAIN tf = {} \/ DOMAIN up = {} \/ present = {} THEN Frac(0, 1)
       ELSE Frac(d - s, d)

\* calculate_audio_match(track_features, user_prefs):
\*   0.0 for an empty argument or when no weighted feature is in both;
\*   else 1.0 - min(np.mean(distances), 1.0) with
\*   distance = abs(track - pref) * weight.
\* Over the common denominator d = n * 10 * FeatUnit * l the mean distance
\* is s / d.
CalculateAudioMatch(tf, up) ==
    LET present == {f \in Range(WeightedFeatures) : f \in DOMAIN tf /\ f \in DOMAIN up}
        l == ProdDen(up, present)
        s == SumDistances(tf, up, present, l)
        d == Cardinality(present) * 10 * FeatUnit * l
    IN IF DOMAIN tf = {} \/ DOMAIN up = {} \/ present = {} THEN Frac(0, 1)
       ELSE Frac(d - Min(s, d), d)

\* a direct call calculate_audio_match(track_features, user_prefs)
DirectAudioMatch ==
    /\ mode = "audio_match" /\ pc = "call"
    /\ result' = CalculateAudioMatch(args.track_features, args.user_prefs)
    /\ pc' = "done"
    /\ UNCHANGED <<mode, tunerFields, tunerLocals, TunerRest,
                   playlist_size, selected_tracks, playlist, raised>>

AudioNext ==
    \/ PreferenceWindow \/ PreferenceUnbound \/ PreferenceSaved \/ PreferenceResult
    \/ DirectAudioMatch

\* the feature values the arguments of calculate_audio_match range over
\* (0.0, 0.5, 1.0 and, outside the service's range, 1.5)
FeatureValues == {0, 5, 10, 15}

\* track_features arguments: every weighted feature, a single one, or none
TrackFeatureInputs ==
    [Range(WeightedFeatures) -> FeatureValues]
       \cup [{"energy"} -> FeatureValues] \cup {EmptyMap}

\* user_prefs arguments: the default profile, the corner profiles, or none
UserPrefInputs ==
    {[f \in DOMAIN v |-> Frac(v[f], 1)] : v \in [Range(WeightedFeatures) -> {0, FeatUnit}]}
       \cup {DefaultPreferences, EmptyMap}

--------------------------------------------------------------------------
(* Initial states *)

\* TasteExplorer.__init__
ExplorerNew ==
    /\ artist_connections = EmptyMap
    /\ artist_genres = EmptyMap
    /\ genre_artists = EmptyMap
    /\ artist_tracks = EmptyMap
    /\ track_features = <<>>

ExplorerIdle ==
    /\ top_artists = <<>>
    /\ loc = InitLoc
    /\ discovery_scores = <<>>

\* TasteTuner.__init__
TunerNew ==
    /\ user_top_artists = {}
    /\ user_top_genres = EmptyMap
    /\ user_audio_preferences = EmptyMap

TunerIdle ==
    /\ candidate_tracks = <<>>
    /\ track_scores = <<>>
    /\ opt_scores = <<>>
    /\ features = Unbound

NoCall ==
    /\ playlist_size = 0
    /\ selected_tracks = <<>>
    /\ playlist = NoPlaylist
    /\ result = "none"
    /\ raised = "none"

InitExplorer ==
    /\ mode = "explorer" /\ pc = "windows"
    /\ ExplorerNew /\ ExplorerIdle /\ TunerNew /\ TunerIdle /\ NoCall
    /\ args = <<>>

\* a fresh TasteTuner about to run create_optimized_playlist
InitTuner ==
    /\ mode = "tuner" /\ pc = "start"
    /\ ExplorerNew /\ ExplorerIdle /\ TunerNew /\ TunerIdle /\ NoCall
    /\ args = <<>>

\* a TasteTuner whose profile was fetched, about to run optimize_playlist
\* on a list of candidates of any size up to PoolSize
InitOptimize ==
    /\ mode = "optimize" /\ pc = "optimize"
    /\ ExplorerNew /\ ExplorerIdle /\ NoCall
    /\ \E items \in ArtistLists :
          /\ user_top_artists = Range(items)
          /\ user_top_genres = GenreCounts(items)
    /\ user_audio_preferences = EmptyMap
    /\ \E n \in 0..PoolSize : \E pool \in Pools(n) : candidate_tracks = pool
    /\ track_scores = <<>> /\ opt_scores = <<>> /\ features = Unbound
    /\ args = <<>>

\* a TasteTuner whose profile was fetched, about to run
\* calculate_artist_match on a track
InitArtistMatch ==
    /\ mode = "artist_match" /\ pc = "call"
    /\ ExplorerNew /\ ExplorerIdle /\ TunerIdle /\ NoCall
    /\ \E items \in ArtistLists :
          /\ user_top_artists = Range(items)
          /\ user_top_genres = GenreCounts(items)
    /\ user_audio_preferences = EmptyMap
    /\ \E t \in TrackIds : args = Track(t)

\* a fresh TasteTuner about to run calculate_audio_preference
InitAudioPreference ==
    /\ mode = "audio_pref" /\ pc = "pref_windows"
    /\ ExplorerNew /\ ExplorerIdle /\ TunerNew /\ TunerIdle /\ NoCall
    /\ args = <<>>

\* calculate_audio_match on given arguments
InitAudioMatch ==
    /\ mode = "audio_match" /\ pc = "call"
    /\ ExplorerNew /\ ExplorerIdle /\ TunerNew /\ TunerIdle /\ NoCall
    /\ \E tf \in TrackFeatureInputs : \E up \in UserPrefInputs :
          args = [track_features |-> tf, user_prefs |-> up]

Init ==
    \/ InitExplorer \/ InitTuner \/ InitOptimize \/ InitArtistMatch
    \/ InitAudioPreference \/ InitAudioMatch

Next == ExplorerNext \/ TunerNext \/ AudioNext

Spec == Init /\ [][Next]_vars

\* the runs of TasteExplorer alone
SpecExplorer == InitExplorer /\ [][ExplorerNext]_vars

\* the runs of TasteTuner's playlist methods alone
SpecTuner == (InitTuner \/ InitOptimize \/ InitArtistMatch) /\ [][TunerNext]_vars

\* the runs of TasteTuner's audio methods alone
SpecAudio == (InitAudioPreference \/ InitAudioMatch) /\ [][AudioNext]_vars

--------------------------------------------------------------------------
(* Properties *)

\* optimize_playlist has returned to its caller
OptimizerReturned ==
    \/ mode = "optimize" /\ pc = "done"
    \/ mode = "tuner" /\ pc \in {"create", "add_items", "done"}
    \/ mode = "tuner" /\ pc = "raised" /\ candidate_tracks # <<>>

\* the sort-and-truncate of create_discovery_playlist has run
DiscoveriesSelected == mode = "explorer" /\ pc \in {"create", "add_items", "done"}

PairwiseDistinct(scores) ==
    \A i, j \in DOMAIN scores : i # j => ~FracEq(scores[i], scores[j])

\* sel lists exactly k ids, and they are the k best of ids by scores
IsTopK(ids, scores, sel, k) ==
    LET S == {i \in DOMAIN ids : ids[i] \in Range(sel)} IN
    /\ Len(sel) = k
    /\ Cardinality(Range(sel)) = k
    /\ Range(sel) \subseteq Range(ids)
    /\ \A i \in S : \A j \in DOMAIN ids \ S : FracLt(scores[j], scores[i])
    /\ \A T \in SUBSET DOMAIN ids :
          Cardinality(T) = k => SumNum(scores, T) <= SumNum(scores, S)

CandidateIds == [i \in DOMAIN candidate_tracks |-> candidate_tracks[i].id]
DiscoveryIds == [i \in DOMAIN discovery_scores |-> discovery_scores[i].id]
DiscoveryValues == [i \in DOMAIN discovery_scores |-> discovery_scores[i].score]

\* C1: on a pool of N >= K candidates with pairwise distinct scores, both
\* selectors (the integer program of optimize_playlist, the sort-and-truncate
\* of create_discovery_playlist) return exactly K ids, the K highest-scoring
\* ones, whose score sum no other K-subset exceeds.
C1_SelectorPicksTopK ==
    /\ (/\ OptimizerReturned
        /\ Len(candidate_tracks) >= playlist_size
        /\ PairwiseDistinct(opt_scores))
          => IsTopK(CandidateIds, opt_scores, selected_tracks, playlist_size)
    /\ (/\ DiscoveriesSelected
        /\ Len(discovery_scores) >= playlist_size
        /\ PairwiseDistinct(DiscoveryValues))
          => IsTopK(DiscoveryIds, DiscoveryValues, selected_tracks, playlist_size)

\* the optimizer chose a proper, non-empty part of a pool of distinct scores
C1_Witness ==
    /\ mode = "tuner" /\ pc = "create"
    /\ playlist_size > 0 /\ playlist_size < Len(candidate_tracks)
    /\ PairwiseDistinct(opt_scores)
    /\ Len(selected_tracks) = playlist_size

\* C2: with fewer candidates than the requested size (N < K, N = 0
\* included) the selection step never returns normally.
C2_InsufficientCandidatesSignalled ==
    /\ OptimizerReturned => Len(candidate_tracks) >= playlist_size
    /\ DiscoveriesSelected => Len(discovery_scores) >= playlist_size

\* C3: a playlist is created and populated only with exactly K ids; a
\* selection that does not hold exactly K ids leads to no playlist call.
C3_PublishesExactlyK ==
    /\ playlist.created => Len(selected_tracks) = playlist_size
    /\ playlist.filled => Len(playlist.items) = playlist_size

\* C4: when no history window yields a feature record,
\* calculate_audio_preference does not raise and the profile is the neutral
\* vector.
C4_NeutralOnEmptyHistory ==
    (/\ mode = "audio_pref"
     /\ pc \in {"done", "raised"}
     /\ ~features.bound \/ features.list = <<>>)
       => /\ raised = "none"
          /\ user_audio_preferences = DefaultPreferences

\* C5: no failure of an upstream fetch ends the run: a run that raised did
\* so in its selection stage, after the candidates were gathered.
C5_FetchFailureNeverFatal ==
    (mode \in {"tuner", "explorer"} /\ raised # "none") => candidate_tracks # <<>>

NoOverlapNoEdges(i) ==
    /\ DDGet(artist_genres, track_features[i].artist_id) \cap UserGenres(artist_genres) = {}
    /\ DDGet(artist_connections, track_features[i].artist_id) = {}

ExplorerScored == mode = "explorer" /\ pc \in {"select", "create", "add_items", "done"}

\* C6: a track whose primary artist shares no genre with the preferred
\* genres and has no related-artist edge scores exactly
\* 0.3 * (1 - popularity / 100), for every popularity in 0..100.
C6_PopularityOnlyScore ==
    /\ ExplorerScored =>
          \A i \in DOMAIN discovery_scores :
             NoOverlapNoEdges(i) =>
                FracEq(discovery_scores[i].score,
                       Frac(3 * (100 - track_features[i].popularity), 1000))
    /\ (mode = "explorer" /\ pc = "select") =>
          \A popularity \in 0..100 : \A gu \in 1..Cardinality(Genres) :
             FracEq(DiscoveryScore(0, gu, 0, popularity), Frac(3 * (100 - popularity), 1000))

\* such a track was scored while the listener has preferred genres
C6_Witness ==
    /\ ExplorerScored
    /\ UserGenres(artist_genres) # {}
    /\ \E i \in DOMAIN discovery_scores : NoOverlapNoEdges(i)

FullVector(d) == DOMAIN d = Range(WeightedFeatures)
UnitDens(up) == \A f \in DOMAIN up : up[f].den = 1

\* the sum of abs(track - pref) * weight over the weighted features, in
\* tenths times tenths, for preferences that are whole tenths
DistanceSum(tf, up) ==
    SumSeq([i \in DOMAIN WeightedFeatures |->
              Abs(tf[WeightedFeatures[i]] - up[WeightedFeatures[i]].num)
                 * FeatureWeight(WeightedFeatures[i])])

AudioMatchDone == mode = "audio_match" /\ pc = "done"

\* C7: calculate_audio_match is 1.0 when the track equals the preferences
\* on every weighted feature, does not increase when one feature's absolute
\* difference grows, is never below 0.0, and is 0.0 once the weighted mean
\* distance is at least 1.0.
C7_AudioMatchShape ==
    AudioMatchDone =>
       LET tf == args.track_features
           up == args.user_prefs
           both == DOMAIN tf \cap DOMAIN up
       IN /\ FracLeq(Frac(0, 1), result)
          /\ (/\ FullVector(tf) /\ Range(WeightedFeatures) \subseteq DOMAIN up
              /\ \A f \in DOMAIN tf : tf[f] * up[f].den = up[f].num)
                => FracEq(result, Frac(1, 1))
          /\ \A f \in both : \A v \in FeatureValues :
                (Abs(v * up[f].den - up[f].num) >= Abs(tf[f] * up[f].den - up[f].num))
                   => FracLeq(CalculateAudioMatch([tf EXCEPT ![f] = v], up), result)
          /\ (/\ FullVector(tf) /\ Range(WeightedFeatures) \subseteq DOMAIN up /\ UnitDens(up)
              /\ DistanceSum(tf, up) >= Len(WeightedFeatures) * 10 * FeatUnit)
                => FracEq(result, Frac(0, 1))

\* a match floored at 0.0: the weighted mean distance is above 1.0
C7_Witness ==
    /\ AudioMatchDone
    /\ FullVector(args.track_features) /\ FullVector(args.user_prefs)
    /\ DistanceSum(args.track_features, args.user_prefs) > Len(WeightedFeatures) * 10 * FeatUnit
    /\ FracEq(result, Frac(0, 1))

ArtistMatchDone == mode = "artist_match" /\ pc = "done"

\* C8 as stated: calculate_artist_match is 1.0 exactly when the primary
\* artist (the first credit) is a known artist.
C8_PrimaryArtistOnly ==
    ArtistMatchDone => (result = 1 <=> args.artists[1] \in user_top_artists)

\* C8 as the code has it: calculate_artist_match is 1.0 exactly when some
\* credited artist, primary or not, is a known artist, and 0.0 otherwise.
C8_AnyCreditedArtist ==
    ArtistMatchDone =>
       /\ result \in {0, 1}
       /\ result = 1 <=> Range(args.artists) \cap user_top_artists # {}

\* a track matched through a non-primary credit only
C8_Witness ==
    /\ ArtistMatchDone
    /\ result = 1
    /\ args.artists[1] \notin user_top_artists

\* C9: calculate_discovery_scores leaves the artist->genres, the
\* artist->related and the artist->tracks maps as they were, keys and values.
C9_ScoringLeavesGraph ==
    [][(mode = "explorer" /\ pc = "scores")
          => /\ artist_genres' = artist_genres
             /\ artist_connections' = artist_connections
             /\ artist_tracks' = artist_tracks]_vars

\* the (artist, genre) pair the next graph addition adds
AddingGenre ==
    \/ pc = "genres" /\ loc.ai <= Len(top_artists) /\ loc.gi <= Len(GenresOfArtist(CurArtist))
    \/ pc = "genre_inverse"
AddingRelatedGenre ==
    \/ pc = "related_genres" /\ loc.rgi <= Len(GenresOfArtist(CurRelated))
    \/ pc = "related_genre_inverse"
PairArtist == IF AddingGenre THEN CurArtist ELSE CurRelated
PairGenre ==
    IF AddingGenre THEN GenresOfArtist(CurArtist)[loc.gi]
    ELSE GenresOfArtist(CurRelated)[loc.rgi]
\* the pair was added before: the inverse index, written last, holds it
PairPresent == PairArtist \in DDGet(genre_artists, PairGenre)

\* C10: adding an (artist, genre) pair that the graph already holds leaves
\* the artist's genre set and the genre's artist set unchanged.
C10_AddGenreIdempotent ==
    [][(mode = "explorer" /\ (AddingGenre \/ AddingRelatedGenre) /\ PairPresent)
          => /\ DDGet(artist_genres', PairArtist) = DDGet(artist_genres, PairArtist)
             /\ DDGet(genre_artists', PairGenre) = DDGet(genre_artists, PairGenre)]_vars

\* a pair that was in both maps has just been added to artist_genres again
C10_Witness ==
    /\ mode = "explorer" /\ pc = "genre_inverse"
    /\ PairPresent
    /\ PairGenre \in DDGet(artist_genres, PairArtist)
    /\ Cardinality(DDGet(artist_genres, PairArtist)) > 1

--------------------------------------------------------------------------
(* The optimized-playlist flow and its precomputed scores *)

FlowSelected == mode = "tuner" /\ pc \in {"create", "add_items", "done"}

\* the index sets of the candidates whose ids, in candidate order, are `sel`
SelectionsOf(sel) ==
    {S \in SUBSET DOMAIN candidate_tracks : SelectedIds(candidate_tracks, S, 1) = sel}

\* S is a K-subset of greatest sum under `scores`
MaximizesSum(scores, S, k) ==
    /\ Cardinality(S) = k
    /\ \A T \in SUBSET DOMAIN scores :
          Cardinality(T) = k => SumNum(scores, T) <= SumNum(scores, S)

\* C11: in create_optimized_playlist, when the pool holds at least K
\* candidates, the ids handed to the playlist are a K-subset that maximizes
\* the sum of the totals the flow computed for the candidates (track_scores,
\* the totals with the weighted diversity term).
C11_FlowSelectsByFlowScores ==
    (FlowSelected /\ playlist_size <= Len(candidate_tracks)) =>
        \E S \in SelectionsOf(selected_tracks) :
            MaximizesSum(track_scores, S, playlist_size)

--------------------------------------------------------------------------
(* The artist -> tracks sets *)

\* build_music_graph has returned
GraphBuilt ==
    mode = "explorer" /\ pc \in {"scores", "select", "create", "add_items", "done"}

HasFeatures(t) == \E i \in DOMAIN track_features : track_features[i].id = t

FeaturesOf(t) ==
    track_features[CHOOSE i \in DOMAIN track_features : track_features[i].id = t]

\* C12 as stated: after build_music_graph every track id in the track set of
\* artist A has A as its recorded primary artist
\* (track_features[t].artist_id = A).
C12_TracksArePrimaryCredit ==
    GraphBuilt =>
        \A a \in DOMAIN artist_tracks : \A t \in artist_tracks[a] :
            HasFeatures(t) /\ FeaturesOf(t).artist_id = a

\* C12 amended: after build_music_graph every track id in the track set of
\* artist A is one of the tracks returned as A's top tracks, and its record
\* names the first credit of that track, which need not be A.
C12_TracksAreTopTracks ==
    GraphBuilt =>
        \A a \in DOMAIN artist_tracks : \A t \in artist_tracks[a] :
            /\ t \in Range(ArtistTopTracks(a))
            /\ HasFeatures(t)
            /\ FeaturesOf(t).artist_id = Track(t).artists[1]

\* a track in a1's set whose record names another artist
C12_Witness ==
    /\ GraphBuilt
    /\ "t2" \in DDGet(artist_tracks, "a1")
    /\ HasFeatures("t2")
    /\ FeaturesOf("t2").artist_id = "a3"

--------------------------------------------------------------------------
(* The genre maps as inverses of each other *)

\* the (artist, genre) pairs of the artist -> genres map
ForwardPairs == UNION {{<<a, g>> : g \in artist_genres[a]} : a \in DOMAIN artist_genres}

\* the (artist, genre) pairs of the genre -> artists map
InversePairs == UNION {{<<a, g>> : a \in genre_artists[g]} : g \in DOMAIN genre_artists}

\* between the two statements that add one pair
MidPair == pc \in {"genre_inverse", "related_genre_inverse"}

\* build_music_graph is running
GraphBuilding ==
    /\ mode = "explorer"
    /\ pc \in {"windows", "saved", "genres", "genre_inverse", "tracks", "track_info",
               "related", "related_genres", "related_genre_inverse"}

\* C13: while build_music_graph runs, also after a fetch failure has skipped
\* part of an artist's processing, genre g is in artist_genres[a] if and
\* only if artist a is in genre_artists[g]; between the two statements that
\* add one pair the inverse map lacks at most that pair and nothing else.
C13_GenreMapsInverse ==
    GraphBuilding =>
        IF MidPair
        THEN ForwardPairs = InversePairs \cup {<<PairArtist, PairGenre>>}
        ELSE ForwardPairs = InversePairs

\* the loop over the artists has ended, the top-tracks fetch of a1 failed so
\* that its related artists were skipped, and g1 holds two artists
C13_Witness ==
    /\ mode = "explorer" /\ pc = "genres"
    /\ loc.ai > Len(top_artists)
    /\ "a1" \in Range(top_artists)
    /\ "a1" \notin DOMAIN artist_tracks
    /\ "g1" \in DDGet(artist_genres, "a1")
    /\ Cardinality(DDGet(genre_artists, "g1")) = 2

==========================================================================
